---- MODULE Spec2Model ----
(***************************************************************************)
(* The endpoint discovery driver of linkerd2-proxy-resolve-discover        *)
(* (discover.rs): the resolution state machine, the build set MakeFutures  *)
(* with per-address cancellation, and the driver's poll.                   *)
(*                                                                         *)
(* One step of the model is either one call of Discover::poll (the whole   *)
(* call, every loop iteration included) or one event of the environment:   *)
(* the resolver yielding an update or failing, the resolve future or the   *)
(* backoff timer completing, a build completing.  What the resolver, the   *)
(* backoff and the maker answer when a poll calls them (the resolve        *)
(* future, the Delay, poll_ready, the future of a build) are inputs of the *)
(* poll, one per call.                                                     *)
(***************************************************************************)
EXTENDS Integers, Sequences, FiniteSets, TLC

\* ------------------------------------------------------------------ bounds
\* Updates the resolver yields over a run.
MaxUpdates == 2
\* Resolver failures (resolve future or resolution stream) over a run.
MaxFailures == 1
\* Builds the maker is asked for over a run.
MaxBuilds == 2
\* The same three for the runs that follow the driver through failure
\* after failure,
RetryUpdates == 1
RetryFailures == 2
RetryBuilds == 1
\* for the runs that follow one build to its Insert,
InsertUpdates == 2
InsertFailures == 1
InsertBuilds == 1
\* and for the runs in which an address is Added again beside another one.
OverwriteUpdates == 2
OverwriteFailures == 1
OverwriteBuilds == 3
\* The capacity of the buffer's channel (Buffer.capacity).
Capacity == 2
\* Changes the driver returns to the background task over a run.
MaxChanges == 3
\* Requests a RequireIdentity service is called with over a run.
MaxRequests == 3

\* Socket addresses.  The endpoint value paired with an address is opaque to
\* the driver (the tests use the unit type), so an Add carries addresses only.
Addrs == {"a1", "a2"}
NoAddr == "-"

\* The address lists an Add or a Remove update carries: one address, two
\* addresses, the same address twice.
AddrLists == {<<"a1">>, <<"a2">>, <<"a1", "a2">>, <<"a1", "a1">>}

\* ------------------------------------------------------------- data types
\* linkerd2_proxy_core::resolve::Update, and the absent Option<Update>.
UpdAdd(l) == [kind |-> "Add", list |-> l]
UpdRemove(l) == [kind |-> "Remove", list |-> l]
UpdEmpty == [kind |-> "Empty", list |-> <<>>]
UpdDoesNotExist == [kind |-> "DoesNotExist", list |-> <<>>]
UpdNone == [kind |-> "None", list |-> <<>>]
\* What polling a resolution can give besides an update.
StreamErr == [kind |-> "Err", list |-> <<>>]
UpdNotReady == [kind |-> "NotReady", list |-> <<>>]
\* poll_resolution does not return: the backoff Delay has failed.
TimerFailed == [kind |-> "TimerFailed", list |-> <<>>]

Updates == {UpdAdd(l) : l \in AddrLists} \cup {UpdRemove(l) : l \in AddrLists}
             \cup {UpdEmpty, UpdDoesNotExist}

\* What Discover::poll returns: Ready(Change::Insert), Ready(Change::Remove),
\* NotReady, Err; Panic is the unimplemented!() arm and TimerPanic the
\* expect("timer must not fail"), with which the poll does not return.
\* Init is "not polled yet".
Result(k, a, svc) == [kind |-> k, addr |-> a, svc |-> svc]
ResNotReady == Result("NotReady", NoAddr, 0)
ResErr == Result("Err", NoAddr, 0)
ResPanic == Result("Panic", NoAddr, 0)
ResTimerPanic == Result("TimerPanic", NoAddr, 0)
\* The panics: the task that polled the driver unwinds, and the driver is
\* not polled again.  A poll that returns an error leaves the driver as it
\* is, to be polled again.
Ended == {"Panic", "TimerPanic"}

\* F applied to the value of e, with e evaluated once however often F reads
\* its argument (the state a method works on is read many times).
Once(F(_), e) == CHOOSE y \in {F(x) : x \in {e}} : TRUE

Range(q) == {q[i] : i \in 1..Len(q)}
Drop(f, k) == [x \in (DOMAIN f) \ {k} |-> f[x]]

VARIABLES
    \* --- Discover
    state,              \* the State enum's variant
    reconcile_update,   \* the Option<Update> held by State::Reconcile
    make_futures,       \* MakeFutures.futures: build id -> MakeFuture
    ready_q,            \* FuturesUnordered's queue of notified futures
    cancelations,       \* MakeFutures.cancelations: addr -> build id
    pending_removals,   \* Vec<SocketAddr>
    active_endpoints,   \* IndexMap keys, in map order
    backoff,            \* delays taken since the last reset_delay
    \* --- environment
    resolve_fut,        \* the resolve future: none / pending / ok / err
    stream,             \* what the resolution will yield, in order: the one
                        \* the driver holds, else the next one it obtains
    timer,              \* the backoff Delay: none / pending / fired / failed
    \* --- the last return of Discover::poll
    last,
    \* --- history
    builds,             \* per build id: address, cancel signals sent, what
                        \* superseded it (a Remove or an Add), its fate
    net,                \* per address: Inserts returned minus Removes returned
    view,               \* the consumer's set: Inserted and not since Removed
    since,              \* addresses Added minus Removed by updates since reconnect
    added,              \* addresses Added minus Removed by updates, ever
    readded,            \* an Add named an address the consumer held
    fresh,              \* the current resolution: updates pulled, first one, ...
    counts,             \* resolves called, updates yielded, failures, delays
                        \* taken, and the delays taken when the driver last
                        \* left Connected for Resolving
    gated,              \* the last poll found the maker not ready while the
                        \* resolution had something to yield
    asked,              \* what poll_ready answered in the last poll, in order
    \* --- the run
    bound               \* the updates, failures and builds of this run at most

\* The buffer (buffer.rs): the Daemon task, the consumer's Discover handle
\* and the two channels between them.
VARIABLES
    daemon,             \* where the Daemon is: parked between two polls, at
                        \* a step of Daemon::poll's loop, or what it ended with
    notified,           \* the Daemon's task is scheduled to be polled
    waits,              \* what the Daemon last returned NotReady from
    registered,         \* the driver has been polled by the Daemon and holds
                        \* its task, which it may notify
    tx_queued,          \* tx waits for a slot of the channel, which holds
                        \* the task of tx's last poll_ready
    rx_task,            \* disconnect_rx has been polled and the oneshot
                        \* holds the task of its last poll
    permit,             \* tx holds the slot a Ready poll_ready reserved
    up,                 \* the change held between discover.poll and try_send
    chan,               \* the mpsc channel: changes sent and not received
    handle,             \* the consumer's handle: held, rx dropped, dropped
    hpoll,              \* what the consumer's poll of the handle found in
                        \* the channel, if it polled
    \* --- history
    returned,           \* the changes discover.poll returned to the Daemon
    received            \* the changes the consumer got from the handle

dvars == <<state, reconcile_update, make_futures, ready_q, cancelations,
           pending_removals, active_endpoints, backoff, resolve_fut, stream,
           timer, last, builds, net, view, since, added, readded,
           fresh, counts, gated, asked, bound>>

bvars == <<daemon, notified, waits, registered, tx_queued, rx_task, permit,
           up, chan, handle, hpoll, returned, received>>

\* The require-identity filter (require_identity_on_endpoint.rs): per
\* endpoint the MakeFuture and the RequireIdentity service made for it, and
\* the requests the services are called with.
VARIABLES
    make_future,        \* per endpoint: the MakeFuture, while there is one:
                        \* the identity it captured, its inner future and
                        \* whether it has been polled
    peer_identity,      \* per endpoint: RequireIdentity.peer_identity, once
                        \* the service is made
    call,               \* the last request: the service called, the
                        \* l5d-require-id header and what call returned
    requests,           \* the requests the services have been called with
    inner_calls         \* the requests handed on to the inner services

ivars == <<make_future, peer_identity, call, requests, inner_calls>>

vars == <<dvars, bvars, ivars>>

\* The whole state as one record, which the operators below transform, with
\* what the collaborators answer during this poll, each in the order it is
\* asked: in_resolve holds the state of the future each call of resolve()
\* returns, in_timer the state of the Delay each call of next_delay()
\* returns, in_maker what each call of poll_ready answers, and in_build the
\* state of the future each call of the maker returns.
Cur(ans) ==
    [state |-> state, reconcile_update |-> reconcile_update,
     make_futures |-> make_futures, ready_q |-> ready_q,
     cancelations |-> cancelations, pending_removals |-> pending_removals,
     active_endpoints |-> active_endpoints, backoff |-> backoff,
     resolve_fut |-> resolve_fut, stream |-> stream, timer |-> timer,
     builds |-> builds, net |-> net, view |-> view,
     since |-> since, added |-> added, readded |-> readded,
     fresh |-> fresh, counts |-> counts,
     in_resolve |-> ans.resolve, in_timer |-> ans.delay,
     in_maker |-> ans.maker, in_build |-> ans.build]

\* History of a resolution: the updates pulled from it, the first of them,
\* the addresses the updates had left present and the ones the consumer held
\* when it was obtained, and the addresses Removed since.
FreshInit(stale, held) ==
    [n |-> 0, first |-> UpdNone, stale |-> stale, held |-> held, removed |-> {}]

\* Discover::new, before anything has happened.
New ==
    [state |-> "Disconnected", reconcile_update |-> UpdNone,
     make_futures |-> <<>>, ready_q |-> <<>>, cancelations |-> <<>>,
     pending_removals |-> <<>>, active_endpoints |-> <<>>, backoff |-> 0,
     resolve_fut |-> "none", stream |-> <<>>, timer |-> "none",
     builds |-> <<>>, net |-> [a \in Addrs |-> 0], view |-> {},
     since |-> {}, added |-> {}, readded |-> FALSE,
     fresh |-> FreshInit({}, {}),
     counts |-> [resolves |-> 0, updates |-> 0, failures |-> 0, delays |-> 0,
                reconnected |-> 0]]

\* Everything but the bounds of the run.
Start ==
    /\ state = New.state
    /\ reconcile_update = New.reconcile_update
    /\ make_futures = New.make_futures
    /\ ready_q = New.ready_q
    /\ cancelations = New.cancelations
    /\ pending_removals = New.pending_removals
    /\ active_endpoints = New.active_endpoints
    /\ backoff = New.backoff
    /\ resolve_fut = New.resolve_fut
    /\ stream = New.stream
    /\ timer = New.timer
    /\ last = Result("Init", NoAddr, 0)
    /\ builds = New.builds
    /\ net = New.net
    /\ view = New.view
    /\ since = New.since
    /\ added = New.added
    /\ readded = New.readded
    /\ fresh = New.fresh
    /\ counts = New.counts
    /\ gated = FALSE
    /\ asked = <<>>
    \* DiscoverFuture::poll: the channels are made, the Daemon is spawned
    \* and the handle is given to the consumer.
    /\ daemon = "parked"
    /\ notified = TRUE
    /\ waits = "spawn"
    /\ registered = FALSE
    /\ tx_queued = FALSE
    /\ rx_task = FALSE
    /\ permit = FALSE
    /\ up = 0
    /\ chan = <<>>
    /\ handle = "held"
    /\ hpoll = "none"
    /\ returned = <<>>
    /\ received = <<>>
    \* No endpoint service has been asked for.
    /\ make_future = [e \in {"e1", "e2"} |->
                         [peer_identity |-> "none", inner |-> "none",
                          polled |-> FALSE]]
    /\ peer_identity = [e \in {"e1", "e2"} |-> "unmade"]
    /\ call = [svc |-> "-", header |-> "absent", result |-> "none"]
    /\ requests = 0
    /\ inner_calls = 0

\* The bounds of a run, and the updates its resolver yields.
Bound(u, f, b, yields) ==
    [updates |-> u, failures |-> f, builds |-> b, yields |-> yields]

Init == Start /\ bound = Bound(MaxUpdates, MaxFailures, MaxBuilds, Updates)
InitRetry ==
    Start /\ bound = Bound(RetryUpdates, RetryFailures, RetryBuilds, Updates)
InitInsert ==
    Start /\ bound = Bound(InsertUpdates, InsertFailures, InsertBuilds, Updates)
\* The resolver Adds a1, alone or with a2, and nothing else.
InitOverwrite ==
    Start /\ bound = Bound(OverwriteUpdates, OverwriteFailures, OverwriteBuilds,
                           {UpdAdd(<<"a1">>), UpdAdd(<<"a1", "a2">>)})

\* ------------------------------------------------------------ MakeFutures
\* oneshot::Sender::send on the cancellation channel of build id: the value
\* reaches the receiver if the MakeFuture is still held, and notifies it.
SendCancel(self, id) ==
    LET run(s) ==
            LET held == id \in DOMAIN s.make_futures
            IN [s EXCEPT
                  !.make_futures = IF held THEN [@ EXCEPT ![id].canceled = TRUE] ELSE @,
                  !.ready_q = IF held /\ id \notin Range(@) THEN Append(@, id) ELSE @,
                  !.builds = [@ EXCEPT ![id].sends = @ + 1]]
    IN Once(run, self)

\* A push that registers the new build without canceling the prior one of
\* the same address.
MakeFutures_push_NoCancel(self, addr, inner) ==
    LET run(s) ==
            LET id == Len(s.builds) + 1
            IN [s EXCEPT
                  !.builds = Append(@, [addr |-> addr, sends |-> 0,
                                        by |-> "-", fate |-> "held"]),
                  !.cancelations = (addr :> id) @@ @,
                  !.make_futures = (id :> [addr |-> addr, inner |-> inner,
                                           canceled |-> FALSE]) @@ @,
                  !.ready_q = Append(@, id)]
    IN Once(run, self)

\* MakeFutures::push: register the cancellation, cancel a prior build of the
\* same address, and hand the new future (inner is the state of the future
\* the maker returned) to the FuturesUnordered, which queues it to be polled.
MakeFutures_push(self, addr, inner) ==
    LET run(s) ==
            LET id == Len(s.builds) + 1
                s0 == [s EXCEPT !.builds =
                          Append(@, [addr |-> addr, sends |-> 0,
                                     by |-> "-", fate |-> "held"])]
                s1 == IF addr \in DOMAIN s0.cancelations
                      THEN SendCancel(s0, s0.cancelations[addr])
                      ELSE s0
            IN [s1 EXCEPT
                  !.cancelations = (addr :> id) @@ @,
                  !.make_futures = (id :> [addr |-> addr, inner |-> inner,
                                           canceled |-> FALSE]) @@ @,
                  !.ready_q = Append(@, id)]
    IN Once(run, self)

\* A remove that fires the signal and keeps the registration.
MakeFutures_remove_KeepEntry(self, addr) ==
    LET run(s) ==
            IF addr \in DOMAIN s.cancelations
            THEN SendCancel(s, s.cancelations[addr])
            ELSE s
    IN Once(run, self)

\* A remove that forgets the registration without firing its signal.
MakeFutures_remove_NoSignal(s, addr) ==
    [s EXCEPT !.cancelations = Drop(@, addr)]

\* MakeFutures::remove: forget the registration and fire its signal.
MakeFutures_remove(self, addr) ==
    LET run(s) ==
            IF addr \in DOMAIN s.cancelations
            THEN SendCancel([s EXCEPT !.cancelations = Drop(@, addr)],
                            s.cancelations[addr])
            ELSE s
    IN Once(run, self)

\* A MakeFuture that polls the build first and the cancellation receiver
\* only while the build is pending.
MakeFuture_poll_InnerFirst(f) ==
    IF f.inner = "ok" THEN "Ready"
    ELSE IF f.inner = "err" THEN "Inner"
    ELSE IF f.canceled THEN "Canceled"
    ELSE "NotReady"

\* MakeFuture::poll: the cancellation receiver first, then the build.
MakeFuture_poll(f) ==
    IF f.canceled THEN "Canceled"
    ELSE IF f.inner = "pending" THEN "NotReady"
    ELSE IF f.inner = "ok" THEN "Ready"
    ELSE "Inner"

\* A future that completed (with a value or an error) leaves the set.
Release(s, id, fate) ==
    [s EXCEPT !.make_futures = Drop(@, id),
              !.builds = [@ EXCEPT ![id].fate = fate]]

\* A build set that yields in push order: it polls the oldest future it
\* holds and waits for it.
RECURSIVE MakeFutures_poll_Fifo(_)
MakeFutures_poll_Fifo(self) ==
    LET run(s) ==
            IF s.ready_q = <<>>
            THEN [s |-> s,
                  res |-> IF DOMAIN s.make_futures = {}
                          THEN Result("ReadyNone", NoAddr, 0) ELSE ResNotReady]
            ELSE LET id == CHOOSE i \in DOMAIN s.make_futures :
                               \A j \in DOMAIN s.make_futures : i <= j
                     f == s.make_futures[id]
                     r == MakeFuture_poll(f)
                     s1 == [s EXCEPT !.ready_q = SelectSeq(@, LAMBDA x : x # id)]
                 IN CASE r = "NotReady" -> [s |-> s1, res |-> ResNotReady]
                      [] r = "Canceled" ->
                            MakeFutures_poll_Fifo(
                                Release(s1, id, "absorbed_" \o f.inner))
                      [] r = "Inner" -> [s |-> Release(s1, id, "failed"),
                                         res |-> Result("Err", f.addr, id)]
                      [] r = "Ready" ->
                            [s |-> [Release(s1, id, "inserted")
                                      EXCEPT !.cancelations = Drop(@, f.addr)],
                             res |-> Result("Insert", f.addr, id)]
    IN Once(run, self)

\* A build set that drops a failed build like a canceled one.
RECURSIVE MakeFutures_poll_SkipFailed(_)
MakeFutures_poll_SkipFailed(self) ==
    LET run(s) ==
            IF s.ready_q = <<>>
            THEN [s |-> s,
                  res |-> IF DOMAIN s.make_futures = {}
                          THEN Result("ReadyNone", NoAddr, 0) ELSE ResNotReady]
            ELSE LET id == Head(s.ready_q)
                     f == s.make_futures[id]
                     r == MakeFuture_poll(f)
                     s1 == [s EXCEPT !.ready_q = Tail(@)]
                 IN CASE r = "NotReady" -> MakeFutures_poll_SkipFailed(s1)
                      [] r = "Canceled" ->
                            MakeFutures_poll_SkipFailed(
                                Release(s1, id, "absorbed_" \o f.inner))
                      [] r = "Inner" ->
                            MakeFutures_poll_SkipFailed(
                                [Release(s1, id, "skipped")
                                   EXCEPT !.cancelations = Drop(@, f.addr)])
                      [] r = "Ready" ->
                            [s |-> [Release(s1, id, "inserted")
                                      EXCEPT !.cancelations = Drop(@, f.addr)],
                             res |-> Result("Insert", f.addr, id)]
    IN Once(run, self)

\* A build set that yields a completed future and goes on holding it.
RECURSIVE MakeFutures_poll_KeepDone(_)
MakeFutures_poll_KeepDone(self) ==
    LET run(s) ==
            IF s.ready_q = <<>>
            THEN [s |-> s,
                  res |-> IF DOMAIN s.make_futures = {}
                          THEN Result("ReadyNone", NoAddr, 0) ELSE ResNotReady]
            ELSE LET id == Head(s.ready_q)
                     f == s.make_futures[id]
                     r == MakeFuture_poll(f)
                     s1 == [s EXCEPT !.ready_q = Tail(@)]
                 IN CASE r = "NotReady" -> MakeFutures_poll_KeepDone(s1)
                      [] r = "Canceled" ->
                            MakeFutures_poll_KeepDone(
                                Release(s1, id, "absorbed_" \o f.inner))
                      [] r = "Inner" -> [s |-> Release(s1, id, "failed"),
                                         res |-> Result("Err", f.addr, id)]
                      [] r = "Ready" ->
                            [s |-> [s EXCEPT !.builds = [@ EXCEPT ![id].fate = "inserted"]],
                             res |-> Result("Insert", f.addr, id)]
    IN Once(run, self)

\* MakeFutures::poll over FuturesUnordered::poll: the notified futures are
\* polled in notification order until one completes; a canceled one is
\* dropped and the loop continues.
RECURSIVE MakeFutures_poll(_)
MakeFutures_poll(self) ==
    LET run(s) ==
            IF s.ready_q = <<>>
            THEN [s |-> s,
                  res |-> IF DOMAIN s.make_futures = {}
                          THEN Result("ReadyNone", NoAddr, 0) ELSE ResNotReady]
            ELSE LET id == Head(s.ready_q)
                     f == s.make_futures[id]
                     r == MakeFuture_poll(f)
                     s1 == [s EXCEPT !.ready_q = Tail(@)]
                 IN CASE r = "NotReady" -> MakeFutures_poll(s1)
                      [] r = "Canceled" ->
                            MakeFutures_poll(Release(s1, id, "absorbed_" \o f.inner))
                      [] r = "Inner" -> [s |-> Release(s1, id, "failed"),
                                         res |-> Result("Err", f.addr, id)]
                      [] r = "Ready" ->
                            [s |-> [Release(s1, id, "inserted")
                                      EXCEPT !.cancelations = Drop(@, f.addr)],
                             res |-> Result("Insert", f.addr, id)]
    IN Once(run, self)

\* ---------------------------------------------------------------- history
\* Bookkeeping of an update the resolution has yielded to the driver (it
\* changes nothing the driver reads).
Pulled(self, u) ==
    LET run(s) ==
            LET first == s.fresh.n = 0
                base == IF first THEN {} ELSE s.since
                l == Range(u.list)
            IN [s EXCEPT
                  !.fresh = [@ EXCEPT !.n = @ + 1,
                                      !.first = IF first THEN u ELSE @],
                  !.since = CASE u.kind = "Add" -> base \cup l
                              [] u.kind = "Remove" -> base \ l
                              [] OTHER -> {},
                  !.added = CASE u.kind = "Add" -> @ \cup l
                              [] u.kind = "Remove" -> @ \ l
                              [] OTHER -> {},
                  !.readded = @ \/ (u.kind = "Add" /\ l \cap s.view # {})]
    IN Once(run, self)

\* Bookkeeping of the builds an update supersedes: those of the address that
\* are held and have not been canceled, when the driver takes a Remove of the
\* address off pending_removals or calls the maker for a new Add of it.
Superseded(self, addr, by) ==
    LET run(s) ==
            [s EXCEPT !.builds =
                [i \in DOMAIN @ |->
                    IF /\ @[i].addr = addr
                       /\ i \in DOMAIN s.make_futures
                       /\ ~s.make_futures[i].canceled
                    THEN [@[i] EXCEPT !.by = by] ELSE @[i]]]
    IN Once(run, self)

\* Bookkeeping of a Change returned to the consumer.
Returned(self, res) ==
    LET run(s) ==
            CASE res.kind = "Insert" ->
                    [s EXCEPT !.net = [@ EXCEPT ![res.addr] = @ + 1],
                              !.view = @ \cup {res.addr}]
              [] res.kind = "Remove" ->
                    [s EXCEPT !.net = [@ EXCEPT ![res.addr] = @ - 1],
                              !.view = @ \ {res.addr},
                              !.fresh = [@ EXCEPT !.removed = @ \cup {res.addr}]]
              [] OTHER -> s
    IN Once(run, self)

\* ------------------------------------------------------- poll_resolution
\* IndexMap::remove is swap_remove: the last entry takes the removed one's place.
IndexMap_remove(m, k) ==
    IF k \notin Range(m) THEN m
    ELSE LET i == CHOOSE j \in 1..Len(m) : m[j] = k
             n == Len(m)
         IN [j \in 1..(n - 1) |-> IF j = i THEN m[n] ELSE m[j]]

RECURSIVE RemoveAll(_, _)
RemoveAll(m, l) ==
    IF l = <<>> THEN m ELSE RemoveAll(IndexMap_remove(m, Head(l)), Tail(l))

\* Backoff::reset_delay and Backoff::next_delay.  The Delay that next_delay
\* returns is pending, or has elapsed already, or has failed (its poll
\* returns the timer's error).
reset_delay(s) == [s EXCEPT !.backoff = 0]
next_delay(s) ==
    [s EXCEPT !.backoff = @ + 1, !.counts.delays = @ + 1,
              !.timer = Head(s.in_timer), !.in_timer = Tail(@)]

\* Resolve::resolve: the future the resolver returns is pending, or has
\* completed already with a resolution or with an error.
resolve(s) ==
    [s EXCEPT !.resolve_fut = Head(s.in_resolve), !.in_resolve = Tail(@),
              !.counts.resolves = @ + 1,
              !.counts.failures = IF Head(s.in_resolve) = "err" THEN @ + 1 ELSE @]

\* Resolution::poll on the live resolution: NotReady, an error, or an update.
Resolution_poll(self) ==
    LET run(s) ==
            IF s.stream = <<>> THEN [s |-> s, res |-> UpdNotReady]
            ELSE IF Head(s.stream).kind = "Err"
            THEN [s |-> [s EXCEPT !.stream = Tail(@)], res |-> StreamErr]
            ELSE [s |-> Pulled([s EXCEPT !.stream = Tail(@)], Head(s.stream)),
                  res |-> Head(s.stream)]
    IN Once(run, self)

\* A failure after which the driver keeps waiting on what has failed.
Fail_Stuck(s) ==
    [s EXCEPT !.state = "Connecting", !.resolve_fut = "pending"]

\* A failure of the resolution that reconnects at once, taking no delay.
Fail_Reconnect(s) ==
    [s EXCEPT !.state = IF @ = "Resolving" THEN "Disconnected" ELSE "Failed",
              !.resolve_fut = "none"]

\* A failure that resets the backoff on its way into Failed.
Fail_Reset(s) ==
    [reset_delay(s) EXCEPT !.state = "Failed", !.resolve_fut = "none"]

\* State::Failed drops the resolve future or the resolution it held: what
\* the next resolution will yield is still to come.
Fail(s) ==
    [s EXCEPT !.state = "Failed", !.resolve_fut = "none"]

\* State::Reconcile(update, resolution).
Reconcile(self) ==
    LET run(s) ==
            LET u == s.reconcile_update
                ae == s.active_endpoints
            IN CASE u.kind = "Add" ->
                      IF ae = <<>>
                      THEN [s |-> [s EXCEPT !.reconcile_update = UpdNone], res |-> u]
                      ELSE [s |-> [s EXCEPT !.active_endpoints = <<>>],
                            res |-> UpdRemove(RemoveAll(ae, u.list))]
                 [] u.kind = "Remove" ->
                      [s |-> [s EXCEPT !.active_endpoints = <<>>,
                                       !.reconcile_update = UpdNone],
                       res |-> UpdRemove(u.list \o ae)]
                 [] u.kind \in {"Empty", "DoesNotExist"} ->
                      IF ae = <<>>
                      THEN [s |-> [s EXCEPT !.reconcile_update = UpdNone], res |-> u]
                      ELSE [s |-> [s EXCEPT !.active_endpoints = <<>>],
                            res |-> UpdRemove(ae)]
    IN Once(run, self)

RECURSIVE poll_resolution(_)
poll_resolution(self) ==
    LET run(s) ==
            CASE s.state = "Disconnected" ->
                    poll_resolution([resolve(s) EXCEPT !.state = "Connecting"])
              [] s.state = "Connecting" ->
                    IF s.resolve_fut = "pending" THEN [s |-> s, res |-> UpdNotReady]
                    ELSE IF s.resolve_fut = "err" THEN poll_resolution(Fail(s))
                    ELSE poll_resolution([s EXCEPT !.state = "Connected",
                                                   !.fresh = FreshInit(s.since, s.view)])
              [] s.state = "Connected" ->
                    IF s.active_endpoints = <<>>
                    THEN poll_resolution([reset_delay(s) EXCEPT
                             !.state = "Resolving",
                             !.counts.reconnected = s.counts.delays])
                    ELSE LET first(r) ==
                                 IF r.res.kind = "NotReady" THEN r
                                 ELSE IF r.res.kind = "Err"
                                 THEN poll_resolution(Fail(r.s))
                                 ELSE poll_resolution([r.s EXCEPT
                                          !.state = "Reconcile",
                                          !.reconcile_update = r.res])
                         IN Once(first, Resolution_poll(s))
              [] s.state = "Reconcile" ->
                    IF s.reconcile_update.kind = "None"
                    THEN poll_resolution([reset_delay(s) EXCEPT
                             !.state = "Resolving",
                             !.counts.reconnected = s.counts.delays])
                    ELSE Reconcile(s)
              [] s.state = "Resolving" ->
                    LET polled(r) ==
                            IF r.res.kind = "Err"
                            THEN poll_resolution(Fail(r.s)) ELSE r
                    IN Once(polled, Resolution_poll(s))
              [] s.state = "Failed" ->
                    poll_resolution([next_delay(s) EXCEPT !.state = "Backoff"])
              [] s.state = "Backoff" ->
                    IF s.timer = "pending" THEN [s |-> s, res |-> UpdNotReady]
                    ELSE IF s.timer = "failed" THEN [s |-> s, res |-> TimerFailed]
                    ELSE poll_resolution([s EXCEPT !.state = "Disconnected",
                                                   !.timer = "none"])
    IN Once(run, self)

\* --------------------------------------------------------- poll_removals
\* make_endpoint.call(target): the future the maker returns is pending, or
\* has completed already with a service or with an error.
Service_call(s) ==
    [s |-> [s EXCEPT !.in_build = Tail(@)], fut |-> Head(s.in_build)]

\* An Add arm that also records the endpoint in active_endpoints.
RECURSIVE PushAll_Track(_, _)
PushAll_Track(self, l) ==
    LET run(s) ==
            IF l = <<>> THEN s
            ELSE LET called(c) ==
                         PushAll_Track(
                             MakeFutures_push(
                                 Superseded([c.s EXCEPT !.active_endpoints =
                                                 IF Head(l) \in Range(@) THEN @
                                                 ELSE Append(@, Head(l))],
                                            Head(l), "add"),
                                 Head(l), c.fut),
                             Tail(l))
                 IN Once(called, Service_call(s))
    IN Once(run, self)

\* The Update::Add arm: call the maker and push the build, per endpoint.
RECURSIVE PushAll(_, _)
PushAll(self, l) ==
    LET run(s) ==
            IF l = <<>> THEN s
            ELSE LET called(c) ==
                         PushAll(MakeFutures_push(Superseded(c.s, Head(l), "add"),
                                                  Head(l), c.fut),
                                 Tail(l))
                 IN Once(called, Service_call(s))
    IN Once(run, self)

\* An extend that takes the first removal of the update only.
ExtendRemovals_HeadOnly(s, l) ==
    [s EXCEPT !.pending_removals = @ \o SubSeq(l, 1, 1)]

\* The Update::Remove arm: pending_removals.extend(removals).
ExtendRemovals(s, l) == [s EXCEPT !.pending_removals = @ \o l]

\* pending_removals.pop(): the last element of the Vec.
PopRemoval(self) ==
    LET run(s) ==
            LET n == Len(s.pending_removals)
            IN [s |-> [s EXCEPT !.pending_removals = SubSeq(@, 1, n - 1)],
                addr |-> s.pending_removals[n]]
    IN Once(run, self)

\* make_endpoint.poll_ready(): what the maker answers this time.
Service_poll_ready(s) ==
    [s |-> [s EXCEPT !.in_maker = Tail(@)], res |-> Head(s.in_maker)]

\* A poll_removals that goes on to poll the resolution when the maker
\* is not ready.
RECURSIVE poll_removals_NoGate(_)
poll_removals_NoGate(self) ==
    LET run(s) ==
            IF s.pending_removals # <<>>
            THEN LET popped(p) ==
                         [s |-> MakeFutures_remove(
                                    Superseded(p.s, p.addr, "remove"), p.addr),
                          res |-> Result("Remove", p.addr, 0)]
                 IN Once(popped, PopRemoval(s))
            ELSE LET update(r) ==
                         CASE r.res.kind = "NotReady" ->
                                [s |-> r.s, res |-> ResNotReady]
                           [] r.res.kind = "Add" ->
                                poll_removals_NoGate(PushAll(r.s, r.res.list))
                           [] r.res.kind = "Remove" ->
                                poll_removals_NoGate(
                                    ExtendRemovals(r.s, r.res.list))
                           [] r.res.kind = "TimerFailed" ->
                                [s |-> r.s, res |-> ResTimerPanic]
                           [] OTHER -> [s |-> r.s, res |-> ResPanic]
                     ready(a) ==
                         IF a.res = "err" THEN [s |-> a.s, res |-> ResErr]
                         ELSE Once(update, poll_resolution(a.s))
                 IN Once(ready, Service_poll_ready(s))
    IN Once(run, self)

RECURSIVE poll_removals(_)
poll_removals(self) ==
    LET run(s) ==
            IF s.pending_removals # <<>>
            THEN LET popped(p) ==
                         [s |-> MakeFutures_remove(
                                    Superseded(p.s, p.addr, "remove"), p.addr),
                          res |-> Result("Remove", p.addr, 0)]
                 IN Once(popped, PopRemoval(s))
            ELSE LET update(r) ==
                         CASE r.res.kind = "NotReady" ->
                                [s |-> r.s, res |-> ResNotReady]
                           [] r.res.kind = "Add" ->
                                poll_removals(PushAll(r.s, r.res.list))
                           [] r.res.kind = "Remove" ->
                                poll_removals(ExtendRemovals(r.s, r.res.list))
                           [] r.res.kind = "TimerFailed" ->
                                [s |-> r.s, res |-> ResTimerPanic]
                           [] OTHER -> [s |-> r.s, res |-> ResPanic]
                     ready(a) ==
                         IF a.res = "err" THEN [s |-> a.s, res |-> ResErr]
                         ELSE IF a.res = "notready"
                         THEN [s |-> a.s, res |-> ResNotReady]
                         ELSE Once(update, poll_resolution(a.s))
                 IN Once(ready, Service_poll_ready(s))
    IN Once(run, self)

\* ---------------------------------------------------------- Discover::poll
\* A poll that hands a failure of the resolver on to its caller.
Discover_poll_ResolverErr(self) ==
    LET run(s) ==
            LET made(m) ==
                    IF m.res.kind = "ReadyNone"
                    THEN [s |-> m.s, res |-> ResNotReady]
                    ELSE m
                removed(r) ==
                    IF r.s.state = "Backoff" /\ r.s.backoff # s.backoff
                    THEN [s |-> r.s, res |-> ResErr]
                    ELSE IF r.res.kind # "NotReady" THEN r
                    ELSE Once(made, MakeFutures_poll(r.s))
            IN Once(removed, poll_removals(s))
    IN Once(run, self)

\* A poll that looks at the builds before the removals.
Discover_poll_BuildsFirst(self) ==
    LET run(s) ==
            LET made(m) ==
                    IF m.res.kind = "ReadyNone"
                    THEN poll_removals(m.s)
                    ELSE m
            IN Once(made, MakeFutures_poll(s))
    IN Once(run, self)

Discover_poll(self) ==
    LET run(s) ==
            LET made(m) ==
                    IF m.res.kind = "ReadyNone"
                    THEN [s |-> m.s, res |-> ResNotReady]
                    ELSE m
                removed(r) ==
                    IF r.res.kind # "NotReady" THEN r
                    ELSE Once(made, MakeFutures_poll(r.s))
            IN Once(removed, poll_removals(s))
    IN Once(run, self)

\* ------------------------------------------------------------------ steps
Running == last.kind \notin Ended

ReadyStates == {"ready", "notready", "err"}
FutStates == {"pending", "ok", "err"}

DelayStates == {"pending", "fired", "failed"}

\* Add entries the resolution has been given and the driver has not pulled.
RECURSIVE QueuedAdds(_)
QueuedAdds(q) ==
    IF q = <<>> THEN 0
    ELSE (IF Head(q).kind = "Add" THEN Len(Head(q).list) ELSE 0)
         + QueuedAdds(Tail(q))

\* The answers of the collaborators that this poll can come to ask for, in
\* the order it asks.  A poll takes a delay per failure it meets: the ones
\* that wait in the resolve future and in the resolution, and the ones of
\* the resolve futures it obtains itself.  It calls resolve() when it starts
\* out disconnected, or with a delay that has elapsed, and after every delay
\* that has elapsed when taken.  (With a resolver that fails at once and
\* delays that have elapsed, poll_resolution loops without returning for as
\* long as that goes on; the failures of a run are bounded, and with them
\* the turns of that loop.)
Count(q, x) == Cardinality({i \in 1..Len(q) : q[i] = x})
FailureWaits ==
    (IF resolve_fut = "err" THEN 1 ELSE 0)
        + Cardinality({i \in 1..Len(stream) : stream[i].kind = "Err"})
Resolves ==
    \/ state = "Disconnected"
    \/ state = "Backoff" /\ timer = "fired"
MayFail ==
    IF Resolves \/ FailureWaits > 0
    THEN FailureWaits + (bound.failures - counts.failures)
    ELSE 0
\* An answer that ends the poll is the last one asked for: the answers
\* listed after it are not asked for, and are listed as rest.
EndsWith(q, go, rest) ==
    \A i \in 1..Len(q) : q[i] # go => \A j \in (i + 1)..Len(q) : q[j] = rest
DelayAnswers ==
    {q \in [1..MayFail -> DelayStates] : EndsWith(q, "fired", "pending")}
ResolveAnswers ==
    IF Resolves \/ FailureWaits > 0
    THEN {q \in [1..((IF Resolves THEN 1 ELSE 0) + MayFail) -> FutStates] :
             /\ Count(q, "err") <= bound.failures - counts.failures
             /\ \A i \in 1..Len(q) : q[i] = "pending" =>
                    \A j \in (i + 1)..Len(q) : q[j] = "pending"}
    ELSE {<<>>}
\* The Adds a poll can take in a row: the update held back for
\* reconciliation and the ones the resolutions yield before anything else
\* (a Remove is returned at once; after a failure the poll may go on, its
\* delay elapsed, to the next resolution).
RECURSIVE LeadAdds(_)
LeadAdds(q) ==
    IF q = <<>> \/ Head(q).kind \notin {"Add", "Err"} THEN <<>>
    ELSE (IF Head(q).kind = "Add" THEN <<Head(q)>> ELSE <<>>)
            \o LeadAdds(Tail(q))
Lead ==
    LeadAdds((IF reconcile_update.kind = "None" THEN <<>>
              ELSE <<reconcile_update>>) \o stream)
\* poll_ready is asked once with no removal pending, and once more after
\* every Add that has been taken.
MakerAnswers ==
    IF pending_removals = <<>>
    THEN {q \in [1..(1 + Len(Lead)) -> ReadyStates] : EndsWith(q, "ready", "ready")}
    ELSE {<<>>}
\* The maker is called once for every endpoint of an Add that is taken,
\* and an Add is taken after a poll_ready that answered Ready.
BuildAnswers ==
    IF pending_removals = <<>> THEN [1..QueuedAdds(Lead) -> FutStates] ELSE {<<>>}
Taken(maker) ==
    LET n == Cardinality({i \in 1..Len(maker) :
                             \A j \in 1..i : maker[j] = "ready"})
    IN QueuedAdds(SubSeq(Lead, 1, IF n < Len(Lead) THEN n ELSE Len(Lead)))
Answers ==
    {a \in [resolve : ResolveAnswers, delay : DelayAnswers,
             maker : MakerAnswers, build : BuildAnswers] :
        \A i \in (Taken(a.maker) + 1)..Len(a.build) : a.build[i] = "pending"}

\* What one call of Discover::poll leaves: the driver as the call left it
\* (an error or a panic resets nothing), what it returned, and what the
\* maker was asked.
After(ans) ==
    LET r == Discover_poll(Cur(ans))
    IN [s |-> Returned(r.s, r.res),
        last |-> r.res,
        asked |-> SubSeq(ans.maker, 1, Len(ans.maker) - Len(r.s.in_maker)),
        gated |-> (/\ ans.maker # <<>> /\ ans.maker[1] = "notready"
                   /\ stream # <<>>
                   /\ r.res.kind \notin Ended)]

\* One call of Discover::poll by the task that owns the driver.
Poll(ans) ==
    /\ Running
    /\ \E a \in {After(ans)} :
          /\ state' = a.s.state
          /\ reconcile_update' = a.s.reconcile_update
          /\ make_futures' = a.s.make_futures
          /\ ready_q' = a.s.ready_q
          /\ cancelations' = a.s.cancelations
          /\ pending_removals' = a.s.pending_removals
          /\ active_endpoints' = a.s.active_endpoints
          /\ backoff' = a.s.backoff
          /\ resolve_fut' = a.s.resolve_fut
          /\ stream' = a.s.stream
          /\ timer' = a.s.timer
          /\ last' = a.last
          /\ builds' = a.s.builds
          /\ net' = a.s.net
          /\ view' = a.s.view
          /\ since' = a.s.since
          /\ added' = a.s.added
          /\ readded' = a.s.readded
          /\ fresh' = a.s.fresh
          /\ counts' = a.s.counts
          /\ asked' = a.asked
          /\ gated' = a.gated
          /\ bound' = bound
          /\ UNCHANGED <<bvars, ivars>>

PollStep == \E ans \in Answers : Poll(ans)

\* What is left to yield once the first resolution is dropped: what comes
\* after its failure, if it fails.
RECURSIVE Next_resolution(_)
Next_resolution(q) ==
    IF q = <<>> THEN <<>>
    ELSE IF Head(q).kind = "Err" THEN Tail(q)
    ELSE Next_resolution(Tail(q))

\* Discover::with_resolution: the builder replaces the state of the driver
\* by Connected with the resolution it is given, whatever the state held (a
\* resolve future, a resolution with what it had to yield, a Delay), and
\* keeps everything else.
with_resolution ==
    /\ Running
    /\ state' = "Connected"
    /\ resolve_fut' = "ok"
    /\ stream' = IF resolve_fut = "ok" THEN Next_resolution(stream) ELSE stream
    /\ timer' = "none"
    /\ fresh' = FreshInit(since, view)
    /\ UNCHANGED <<bound, gated, asked, reconcile_update, make_futures, ready_q, cancelations,
                   pending_removals, active_endpoints, backoff, last,
                   builds, net, view, since, added, readded, counts>>
    /\ UNCHANGED <<bvars, ivars>>

\* The resolver yields an update: on the resolution the driver holds, or,
\* while it holds none or the one it holds has failed, on the one it will
\* obtain next, which is then born holding the update.
ResolverUpdate ==
    /\ Running
    /\ counts.updates < bound.updates
    /\ \E u \in bound.yields :
         /\ u.kind = "Add" =>
               Len(builds) + QueuedAdds(stream) + Len(u.list) <= bound.builds
         /\ stream' = Append(stream, u)
    /\ counts' = [counts EXCEPT !.updates = @ + 1]
    /\ UNCHANGED <<bound, gated, asked, state, reconcile_update, make_futures, ready_q, cancelations,
                   pending_removals, active_endpoints, backoff, resolve_fut,
                   timer, last, builds, net, view, since, added,
                   readded, fresh>>
    /\ UNCHANGED <<bvars, ivars>>

\* The resolution fails, after what it has to yield.
ResolverFail ==
    /\ Running
    /\ counts.failures < bound.failures
    /\ stream' = Append(stream, StreamErr)
    /\ counts' = [counts EXCEPT !.failures = @ + 1]
    /\ UNCHANGED <<bound, gated, asked, state, reconcile_update, make_futures, ready_q, cancelations,
                   pending_removals, active_endpoints, backoff, resolve_fut,
                   timer, last, builds, net, view, since, added,
                   readded, fresh>>
    /\ UNCHANGED <<bvars, ivars>>

\* The pending resolve future completes, with a resolution or an error.
ResolveDone ==
    /\ Running /\ resolve_fut = "pending"
    /\ \/ /\ resolve_fut' = "ok"
          /\ counts' = counts
       \/ /\ counts.failures < bound.failures
          /\ resolve_fut' = "err"
          /\ counts' = [counts EXCEPT !.failures = @ + 1]
    /\ UNCHANGED <<bound, gated, asked, state, reconcile_update, make_futures, ready_q, cancelations,
                   pending_removals, active_endpoints, backoff, stream,
                   timer, last, builds, net, view, since, added,
                   readded, fresh>>
    /\ UNCHANGED <<bvars, ivars>>

\* The backoff timer fires.
TimerFire ==
    /\ Running /\ timer = "pending"
    /\ timer' = "fired"
    /\ UNCHANGED <<bound, gated, asked, state, reconcile_update, make_futures, ready_q, cancelations,
                   pending_removals, active_endpoints, backoff, resolve_fut,
                   stream, last, builds, net, view, since, added,
                   readded, fresh, counts>>
    /\ UNCHANGED <<bvars, ivars>>

\* The backoff timer fails: the Delay's poll will return an error.
TimerFail ==
    /\ Running /\ timer = "pending"
    /\ timer' = "failed"
    /\ UNCHANGED <<bound, gated, asked, state, reconcile_update, make_futures, ready_q, cancelations,
                   pending_removals, active_endpoints, backoff, resolve_fut,
                   stream, last, builds, net, view, since, added,
                   readded, fresh, counts>>
    /\ UNCHANGED <<bvars, ivars>>

\* A held build's underlying future completes, with a service or an error,
\* and notifies its MakeFuture.
BuildDone ==
    /\ Running
    /\ \E id \in DOMAIN make_futures, o \in {"ok", "err"} :
         /\ make_futures[id].inner = "pending"
         /\ make_futures' = [make_futures EXCEPT ![id].inner = o]
         /\ ready_q' = IF id \in Range(ready_q) THEN ready_q
                       ELSE Append(ready_q, id)
    /\ UNCHANGED <<bound, gated, asked, state, reconcile_update, cancelations, pending_removals,
                   active_endpoints, backoff, resolve_fut, stream, timer,
                   last, builds, net, view, since, added, readded,
                   fresh, counts>>
    /\ UNCHANGED <<bvars, ivars>>

Next ==
    \/ PollStep
    \/ with_resolution
    \/ ResolverUpdate
    \/ ResolverFail
    \/ ResolveDone
    \/ TimerFire
    \/ TimerFail
    \/ BuildDone

Spec == Init /\ [][Next]_vars
SpecRetry == InitRetry /\ [][Next]_vars
SpecOverwrite == InitOverwrite /\ [][Next]_vars

\* The build futures held, those not canceled, and all builds ever made.
Held == DOMAIN make_futures
HeldLive == {id \in Held : ~make_futures[id].canceled}
Ids == DOMAIN builds

\* This step hands the driver a resolution (with_resolution): a poll leaves
\* the driver in Connected only if it found it there, and then changes
\* nothing of the resolution.
Handed ==
    /\ state' = "Connected"
    /\ \/ state # "Connected"
       \/ /\ net' = net /\ Len(stream') <= Len(stream)
          /\ stream' # stream \/ fresh' # fresh

\* This step is not a call of Discover::poll: it is an event of the
\* environment (the resolver yields or fails, the resolve future, the timer
\* or a build completes), or the driver is handed a resolution.  A poll
\* does none of these.
EnvStep ==
    \/ counts'.updates > counts.updates
    \/ Len(stream') > Len(stream)
    \/ resolve_fut = "pending" /\ resolve_fut' \in {"ok", "err"}
    \/ timer = "pending" /\ timer' \in {"fired", "failed"} /\ state' = state
    \/ Handed
    \/ \E id \in Held \cap DOMAIN make_futures' :
          make_futures[id].inner = "pending" /\ make_futures'[id].inner # "pending"
\* The steps of the model are the polls and these events.
EnvStepIsNoPoll == [][PollStep <=> ~EnvStep]_vars

\* A poll in which the maker is ready whenever it is asked.
ReadyPoll ==
    \E ans \in Answers : Range(ans.maker) \subseteq {"ready"} /\ Poll(ans)

\* The fields of the driver a poll may change.
Fields(s) ==
    <<s.state, s.reconcile_update, s.make_futures, s.ready_q, s.cancelations,
      s.pending_removals, s.active_endpoints, s.backoff, s.resolve_fut,
      s.stream, s.timer, s.builds, s.net, s.view, s.since, s.added,
      s.readded, s.fresh, s.counts>>

\* ENABLED <<ReadyPoll>>_vars, as a predicate of the state: some poll with
\* the maker ready leaves something else than it finds.
ReadyPoll_Enabled ==
    /\ Running
    /\ \E ans \in Answers :
          /\ Range(ans.maker) \subseteq {"ready"}
          /\ \E a \in {After(ans)} :
                \/ Fields(a.s) # Fields(Cur(ans))
                \/ a.last # last \/ a.asked # asked \/ a.gated # gated

\* ReadyPoll, as a predicate of the step: a poll (no event of the
\* environment) in which poll_ready was answered Ready whenever it was
\* asked.
ReadyPoll_Step == ~EnvStep /\ Range(asked') \subseteq {"ready"}

\* The two predicates say what they are to say.
ReadyPoll_Written ==
    /\ [](ReadyPoll_Enabled <=> ENABLED <<ReadyPoll>>_vars)
    /\ [][ReadyPoll <=> ReadyPoll_Step]_vars

\* The driver keeps being polled with a maker that is ready: weak fairness
\* of ReadyPoll, WF_vars(ReadyPoll), written out by its definition
\* ([]<>~ENABLED <<A>>_vars \/ []<><<A>>_vars) with the two predicates
\* above in the place of ENABLED <<ReadyPoll>>_vars and <<ReadyPoll>>_vars;
\* and a backoff delay that has been taken and has not failed fires.
FairSpec ==
    /\ (InitRetry \/ InitInsert) /\ [][Next]_vars
    /\ []<>~ReadyPoll_Enabled \/ []<><<ReadyPoll_Step>>_vars
    /\ WF_vars(TimerFire)

\* ------------------------------------------------------------- the buffer
\* Daemon<D> is generic in the driver D: discover.poll() is what any
\* tower::discover::Discover may answer.  A change is named by its rank
\* among the changes the driver returns.
Terminated == {"Ok", "Err", "panic"}
DiscoverAnswers ==
    {"NotReady", "Err", "Panic"}
        \cup (IF Len(returned) < MaxChanges THEN {"Ready"} ELSE {})

\* oneshot::Receiver<Never>::poll: no value is ever sent; the receiver
\* fails once the sender (the handle's _disconnect_tx) is dropped.
Receiver_poll_NeverLost(h) == "NotReady"

Receiver_poll(h) == IF h = "dropped" THEN "Err" ELSE "NotReady"

\* mpsc::Sender::poll_ready on the bounded channel: Ready reserves a slot,
\* which the sender keeps until it sends; no slot is free while the channel
\* holds capacity changes; an error once the receiver is gone.
Sender_poll_ready_Unbounded(c, p, h) ==
    IF p THEN "Ready" ELSE IF h # "held" THEN "Err" ELSE "Ready"

Sender_poll_ready(c, p, h) ==
    IF p THEN "Ready"
    ELSE IF h # "held" THEN "Err"
    ELSE IF Len(c) < Capacity THEN "Ready" ELSE "NotReady"

\* A try_send that fails once the receiver is gone, slot reserved or not.
Sender_try_send_Closed(c, p, h) == IF h # "held" THEN "Closed" ELSE "Ok"

\* mpsc::Sender::try_send: succeeds into the reserved slot, or a free one.
Sender_try_send(c, p, h) ==
    IF p THEN "Ok"
    ELSE IF h # "held" THEN "Closed"
    ELSE IF Len(c) < Capacity THEN "Ok" ELSE "Full"

\* The executor polls the notified Daemon.
DaemonStart ==
    /\ daemon = "parked" /\ notified
    /\ daemon' = "disconnect_rx"
    /\ notified' = FALSE
    /\ UNCHANGED <<waits, permit, up, chan, handle, hpoll, returned, received>>
    /\ UNCHANGED <<registered, tx_queued, rx_task, dvars, ivars>>

\* match self.disconnect_rx.poll(): a receiver that answers NotReady has
\* taken the task, for the sender to notify when it is dropped.
CheckDisconnect ==
    /\ daemon = "disconnect_rx"
    /\ daemon' = IF Receiver_poll(handle) = "Err" THEN "Ok" ELSE "poll_ready"
    /\ rx_task' = (rx_task \/ Receiver_poll(handle) = "NotReady")
    /\ UNCHANGED <<notified, waits, permit, up, chan, handle, hpoll,
                   returned, received>>
    /\ UNCHANGED <<registered, tx_queued, dvars, ivars>>

\* try_ready!(self.tx.poll_ready().map_err(..)): a sender that answers
\* NotReady is queued for a slot with the task, and stays queued until a
\* poll_ready answers otherwise.
PollReady ==
    /\ daemon = "poll_ready"
    /\ \E r \in {Sender_poll_ready(chan, permit, handle)} :
         /\ daemon' = CASE r = "Ready" -> "discover"
                        [] r = "NotReady" -> "parked"
                        [] OTHER -> "Err"
         /\ permit' = (r = "Ready")
         /\ waits' = IF r = "NotReady" THEN "tx" ELSE waits
         /\ tx_queued' = (r = "NotReady")
    /\ UNCHANGED <<notified, up, chan, handle, hpoll, returned, received>>
    /\ UNCHANGED <<registered, rx_task, dvars, ivars>>

\* let up = try_ready!(self.discover.poll().map_err(..)).  A poll that
\* answers NotReady has registered the task with what the driver waits for;
\* one that answers otherwise may have (the driver polls its resolution
\* before its builds).
PollDiscover ==
    /\ daemon = "discover"
    /\ \E r \in DiscoverAnswers, reg \in BOOLEAN :
         /\ r = "NotReady" => reg
         /\ registered' = (registered \/ reg)
         /\ daemon' = CASE r = "Ready" -> "try_send"
                        [] r = "NotReady" -> "parked"
                        [] r = "Err" -> "Err"
                        [] OTHER -> "panic"
         /\ up' = IF r = "Ready" THEN Len(returned) + 1 ELSE up
         /\ returned' = IF r = "Ready" THEN Append(returned, Len(returned) + 1)
                        ELSE returned
         /\ waits' = IF r = "NotReady" THEN "discover" ELSE waits
    /\ UNCHANGED <<notified, permit, chan, handle, hpoll, received>>
    /\ UNCHANGED <<tx_queued, rx_task, dvars, ivars>>

\* self.tx.try_send(up).ok().expect("sender must be ready"), and around
\* the loop.
TrySend ==
    /\ daemon = "try_send"
    /\ IF Sender_try_send(chan, permit, handle) = "Ok"
       THEN /\ chan' = Append(chan, up)
            /\ permit' = FALSE
            /\ up' = 0
            /\ daemon' = "disconnect_rx"
       ELSE /\ daemon' = "panic"
            /\ UNCHANGED <<chan, permit, up>>
    /\ UNCHANGED <<notified, waits, handle, hpoll, returned, received>>
    /\ UNCHANGED <<registered, tx_queued, rx_task, dvars, ivars>>

DaemonStep ==
    \/ DaemonStart
    \/ CheckDisconnect
    \/ PollReady
    \/ PollDiscover
    \/ TrySend

\* Something the driver waits for (the resolver, a build, the backoff
\* timer) notifies the task that polled it: wherever the Daemon is by then,
\* parked on the driver or on the channel, or in the middle of a poll.
DiscoverWake ==
    /\ daemon \notin Terminated /\ ~notified
    /\ registered
    /\ notified' = TRUE
    /\ UNCHANGED <<daemon, waits, permit, up, chan, handle, hpoll,
                   returned, received>>
    /\ UNCHANGED <<registered, tx_queued, rx_task, dvars, ivars>>

\* The consumer polls its handle (impl discover::Discover for Discover):
\* unimplemented!() panics; nothing is taken from the channel.  A Daemon
\* that has returned is dropped, its tx with it: an empty channel is then
\* closed.
ConsumerPoll ==
    /\ handle = "held" /\ hpoll = "none"
    /\ hpoll' = IF chan # <<>> THEN "nonempty"
                ELSE IF daemon \in Terminated THEN "closed" ELSE "empty"
    /\ UNCHANGED <<daemon, notified, waits, permit, up, chan, handle,
                   returned, received>>
    /\ UNCHANGED <<registered, tx_queued, rx_task, dvars, ivars>>

\* The handle is dropped, a field at a time in the order of declaration:
\* rx closes the channel, which notifies the task of a sender queued for a
\* slot, be the Daemon parked or in the middle of a poll; a Daemon that has
\* ended has dropped tx.
DropRx ==
    /\ handle = "held"
    /\ handle' = "rx_dropped"
    /\ notified' = (notified \/ (tx_queued /\ daemon \notin Terminated))
    /\ UNCHANGED <<daemon, waits, permit, up, chan, hpoll, returned, received>>
    /\ UNCHANGED <<registered, tx_queued, rx_task, dvars, ivars>>

\* _disconnect_tx is dropped: the oneshot notifies the task the receiver
\* has taken when it was polled; a Daemon that has ended has dropped
\* disconnect_rx.
DropDisconnectTx ==
    /\ handle = "rx_dropped"
    /\ handle' = "dropped"
    /\ notified' = (notified \/ (rx_task /\ daemon \notin Terminated))
    /\ UNCHANGED <<daemon, waits, permit, up, chan, hpoll, returned, received>>
    /\ UNCHANGED <<registered, tx_queued, rx_task, dvars, ivars>>

NextBuffer ==
    \/ DaemonStart
    \/ CheckDisconnect
    \/ PollReady
    \/ PollDiscover
    \/ TrySend
    \/ DiscoverWake
    \/ ConsumerPoll
    \/ DropRx
    \/ DropDisconnectTx

SpecBuffer == Init /\ [][NextBuffer]_vars

\* The executor polls a notified task, and a poll runs to its return.
FairSpecBuffer == SpecBuffer /\ WF_vars(DaemonStep)

\* ------------------------------------------------- the require-identity filter
\* Identity names; Conditional::None(_) and the None of an Option.
Names == {"n1", "n2"}
NoIdentity == "none"
PeerIdentities == Names \cup {NoIdentity}
\* The l5d-require-id header of a request: absent, naming an identity, or
\* present with a value that is no identity name.
Headers == Names \cup {"absent", "invalid"}

\* proxy::http::identity_from_header(&request, L5D_REQUIRE_ID), an
\* Option<identity::Name>: the name the header holds; None where the request
\* has no such header, and where its value is no identity name.
identity_from_header(h) == IF h \in Names THEN h ELSE NoIdentity

RequireIdentityError(require_identity, peer) ==
    [kind |-> "RequireIdentityError",
     require_identity |-> require_identity, peer_identity |-> peer]
InnerCall == [kind |-> "inner", require_identity |-> NoIdentity,
              peer_identity |-> NoIdentity]

\* RequireIdentity::call: the error future, or the inner service's.
RequireIdentity_call(peer, h) ==
    LET require_identity == identity_from_header(h)
    IN IF require_identity # NoIdentity
       THEN IF peer # NoIdentity
            THEN IF require_identity # peer
                 THEN RequireIdentityError(require_identity, peer)
                 ELSE InnerCall
            ELSE RequireIdentityError(require_identity, NoIdentity)
       ELSE InnerCall

\* The endpoints services are made for, and the place of a MakeFuture
\* that has not been asked for or has completed.
Endpoints == {"e1", "e2"}
NoFuture == [peer_identity |-> NoIdentity, inner |-> "none", polled |-> FALSE]

\* MakeSvc::call: the identity of the target is captured and the inner
\* stack is asked for its service; the MakeFuture is handed to the caller.
MakeSvc_call ==
    /\ \E e \in Endpoints, p \in PeerIdentities :
         /\ make_future[e] = NoFuture /\ peer_identity[e] = "unmade"
         /\ make_future' = [make_future EXCEPT ![e] =
                [peer_identity |-> p, inner |-> "pending", polled |-> FALSE]]
    /\ UNCHANGED <<peer_identity, call, requests, inner_calls>>
    /\ UNCHANGED <<dvars, bvars>>

\* The inner future of a MakeFuture completes, with the inner service or
\* with an error.
InnerMade ==
    /\ \E e \in Endpoints, o \in {"ok", "err"} :
         /\ make_future[e].inner = "pending"
         /\ make_future' = [make_future EXCEPT ![e].inner = o]
    /\ UNCHANGED <<peer_identity, call, requests, inner_calls>>
    /\ UNCHANGED <<dvars, bvars>>

\* MakeFuture::poll: NotReady while the inner future is pending, its error
\* if it failed (no service is made), and else the RequireIdentity service
\* with the identity captured.
MakeSvcFuture_poll ==
    /\ \E e \in Endpoints :
         /\ make_future[e] # NoFuture
         /\ CASE make_future[e].inner = "pending" ->
                   /\ make_future' = [make_future EXCEPT ![e].polled = TRUE]
                   /\ UNCHANGED peer_identity
              [] make_future[e].inner = "err" ->
                   /\ make_future' = [make_future EXCEPT ![e] = NoFuture]
                   /\ UNCHANGED peer_identity
              [] make_future[e].inner = "ok" ->
                   /\ make_future' = [make_future EXCEPT ![e] = NoFuture]
                   /\ peer_identity' = [peer_identity EXCEPT ![e] =
                                            make_future[e].peer_identity]
    /\ UNCHANGED <<call, requests, inner_calls>>
    /\ UNCHANGED <<dvars, bvars>>

\* A service that has been made is called with a request.
Call ==
    /\ requests < MaxRequests
    /\ \E e \in Endpoints, h \in Headers :
         /\ peer_identity[e] # "unmade"
         /\ \E r \in {RequireIdentity_call(peer_identity[e], h)} :
              /\ call' = [svc |-> e, header |-> h, result |-> r]
              /\ inner_calls' = IF r.kind = "inner" THEN inner_calls + 1
                                ELSE inner_calls
    /\ requests' = requests + 1
    /\ UNCHANGED <<make_future, peer_identity>>
    /\ UNCHANGED <<dvars, bvars>>

NextIdentity ==
    \/ MakeSvc_call
    \/ InnerMade
    \/ MakeSvcFuture_poll
    \/ Call

SpecIdentity == Init /\ [][NextIdentity]_vars

\* ----------------------------------------------------------------- claims

\* A new backoff delay is taken in this step: a poll has handled a failure
\* of the resolve future or of the resolution.
FailureHandled == counts'.delays > counts.delays

\* Nothing is left for a poll to do.
Quiet ==
    /\ state = "Resolving" /\ stream = <<>>
    /\ pending_removals = <<>> /\ make_futures = <<>>

\* C1 (as claimed): after a reconnect, once the first update Add(list) of the
\* fresh resolution has been handled and nothing is left to do, the consumer
\* holds exactly the addresses of list: every stale address got its Remove.
C1_ReconnectConverges ==
    (/\ counts.resolves >= 2 /\ fresh.n = 1 /\ fresh.first.kind = "Add"
     /\ fresh.held = fresh.stale
     /\ Quiet)
    => view = Range(fresh.first.list)

\* C2 (as claimed): the keys of active_endpoints are the addresses of the
\* Adds minus those of the Removes the resolution yielded since the reconnect.
C2_ActiveEndpointsFollowUpdates == Range(active_endpoints) = since

\* C3 (as claimed): for every address, Inserts returned minus Removes
\* returned is 0 or 1 at every moment.
C3_NetZeroOrOne == \A a \in Addrs : net[a] \in {0, 1}

\* C3 (amended): for every address, Inserts returned minus Removes returned
\* never exceeds 1 as long as the driver has taken no Add of an address the
\* consumer held at that moment (Inserted and not Removed since); the
\* difference is not bounded below.
C3_NetAtMostOne == ~readded => \A a \in Addrs : net[a] <= 1

\* C3 witness: no Add has named an address the consumer held; one address
\* has had two builds, the first canceled by the second and the second
\* Inserted, and another address has been Removed without ever being
\* Inserted.
C3_Witness ==
    /\ ~readded
    /\ \E a, b \in Addrs :
          /\ net[a] = 1 /\ net[b] = -1
          /\ \E i, j \in Ids :
                /\ i < j /\ builds[i].addr = a /\ builds[j].addr = a
                /\ builds[i].sends = 1 /\ builds[j].fate = "inserted"

\* Occurrences of address a in the list l.
RECURSIVE Occurs(_, _)
Occurs(a, l) ==
    IF l = <<>> THEN 0
    ELSE (IF Head(l) = a THEN 1 ELSE 0) + Occurs(a, Tail(l))

\* Removals of a the driver owes the consumer: entries of pending_removals,
\* of the Remove updates the resolution has in store, and of active_endpoints.
RECURSIVE QueuedRemoves(_, _)
QueuedRemoves(a, q) ==
    IF q = <<>> THEN 0
    ELSE (IF Head(q).kind = "Remove" THEN Occurs(a, Head(q).list) ELSE 0)
         + QueuedRemoves(a, Tail(q))
Owed(a) ==
    Occurs(a, pending_removals) + QueuedRemoves(a, stream)
    + Occurs(a, active_endpoints)
InsertedAddrs == {builds[i].addr : i \in {j \in Ids : builds[j].fate = "inserted"}}

\* C4 (as claimed): a Remove(a) is returned only for an address that was
\* Inserted before, or that was present before the reconnect.
C4_RemoveOnlyInserted ==
    last.kind = "Remove" => last.addr \in InsertedAddrs \cup fresh.stale

\* C4 (amended): a Remove(a) is returned only for an address named by a
\* Remove update of the resolution (or drained from active_endpoints), once
\* per entry: a poll that returns Remove(a) takes one owed removal of a away
\* and no poll does away with an owed removal otherwise.  The address need
\* not have been Inserted.
C4_RemoveOnlyOwed ==
    [][(~EnvStep /\ last'.kind \notin Ended)
       => \A a \in Addrs :
            /\ net'[a] >= net[a] - 1
            /\ Owed(a)' = Owed(a) - (IF net'[a] < net[a] THEN 1 ELSE 0)]_vars

\* C4 witness: a Remove was returned for an address never Inserted.
C4_Witness == last.kind = "Remove" /\ last.addr \notin InsertedAddrs

\* C5 (as claimed): the addresses with a cancellation entry are those with a
\* build future held, one build per address, each signal sent at most once.
C5_PairedWithHeld ==
    /\ DOMAIN cancelations = {make_futures[id].addr : id \in Held}
    /\ \A i, j \in Held : make_futures[i].addr = make_futures[j].addr => i = j
    /\ \A i \in Ids : builds[i].sends <= 1

\* C5 (amended): the cancellation entries are those of the held build
\* futures that have not been canceled, one per address, and those of the
\* builds whose error the build set has returned: MakeFutures::poll returns
\* the error of a build without removing its entry, which stays until a
\* Remove or an Add of the address takes it and sends its signal.  A canceled
\* future stays in the set until the set next polls it, and each signal is
\* sent at most once.
C5_PairedWithLive ==
    /\ \A id \in HeldLive :
          /\ make_futures[id].addr \in DOMAIN cancelations
          /\ cancelations[make_futures[id].addr] = id
    /\ \A a \in DOMAIN cancelations :
          /\ cancelations[a] \in Ids /\ builds[cancelations[a]].addr = a
          /\ \/ cancelations[a] \in HeldLive
             \/ /\ builds[cancelations[a]].fate = "failed"
                /\ builds[cancelations[a]].sends = 0
    /\ \A i \in Ids :
          (builds[i].fate = "failed" /\ builds[i].sends = 0) =>
              /\ builds[i].addr \in DOMAIN cancelations
              /\ cancelations[builds[i].addr] = i
    /\ \A id \in Held : make_futures[id].canceled <=> builds[id].sends = 1
    /\ \A i \in Ids : builds[i].sends <= 1

\* C5 witness: the error of a build has been returned and its cancellation
\* entry is still there, with no future to it; beside it a canceled future
\* is still held, with no entry.
C5_Witness ==
    \E i \in Held, j \in Ids \ Held :
        /\ make_futures[i].canceled
        /\ make_futures[i].addr \notin DOMAIN cancelations
        /\ builds[j].fate = "failed"
        /\ builds[j].addr \in DOMAIN cancelations
        /\ cancelations[builds[j].addr] = j

Absorbed == {"absorbed_pending", "absorbed_ok", "absorbed_err"}
Surfaced == {"inserted", "failed"}
\* Build i is superseded, by a Remove or an Add of its address, in this step.
NewlyBy(i, by) ==
    /\ builds'[i].by = by
    /\ i \in Ids => builds[i].by # by

\* C6: when the resolver yields Add(a) and then Remove(a) before the build
\* of a is done, the poll that takes the Remove returns Remove(a), once, and
\* leaves no cancellation entry for a; the build is canceled and never
\* Inserted, whatever its underlying future does afterwards.
C6_RemovedWhilePending ==
    /\ [](\A i \in Ids : builds[i].by = "remove" =>
              /\ builds[i].sends = 1
              /\ builds[i].fate \notin Surfaced
              /\ builds[i].fate = "held" => make_futures[i].canceled)
    /\ [](last.kind = "Remove" => last.addr \notin DOMAIN cancelations)
    /\ [][\A i \in DOMAIN builds', a \in Addrs :
              (NewlyBy(i, "remove") /\ builds'[i].addr = a) =>
                  /\ last' = Result("Remove", a, 0)
                  /\ net'[a] = net[a] - 1
                  /\ Owed(a)' = Owed(a) - 1]_vars

\* C6 witness: a build was removed while pending, its future then completed
\* with a service, and it has been dropped: one Remove and no Insert.
C6_Witness ==
    \E i \in Ids :
        /\ builds[i].by = "remove" /\ builds[i].fate = "absorbed_ok"
        /\ net[builds[i].addr] = -1
        /\ \A j \in Ids : builds[j].addr = builds[i].addr => j = i

\* The place of build i in the queue q of notified futures.
Place(q, i) == CHOOSE n \in 1..Len(q) : q[n] = i

\* C7 (as claimed): a build overwritten by a second Add of its address is
\* canceled and released by the poll that handles the second Add, one build
\* and one cancellation entry remain, and only the second build is Inserted.
C7_ReleasedBySamePoll ==
    /\ \A i \in Held : builds[i].by # "add"
    /\ \A i \in Ids : builds[i].by = "add" => builds[i].fate \notin Surfaced

\* C7 (amended): a build overwritten by a second Add of its address is
\* canceled by the poll that handles the second Add, and is released when
\* the build set reaches it in the order in which its futures were
\* notified: while it is held it is canceled and notified; no canceled
\* build is left by a poll that returns NotReady, none of its address by the
\* poll that returns the Insert of that address, and a poll that returns the
\* result of a build and leaves a canceled one that was notified before the
\* poll has returned one notified earlier.  It is never Inserted, an Insert
\* carries the service of the latest build of its address, and one build
\* that is not canceled and one cancellation entry remain.
C7_OverwriteCancels ==
    /\ [](\A i \in Ids : builds[i].by = "add" =>
              /\ builds[i].sends = 1
              /\ builds[i].fate \notin Surfaced
              /\ builds[i].fate = "held" =>
                    make_futures[i].canceled /\ i \in Range(ready_q)
              /\ \E j \in Ids : j > i /\ builds[j].addr = builds[i].addr)
    /\ [](last.kind = "Insert" =>
              /\ \A j \in Ids : builds[j].addr = last.addr => j <= last.svc
              /\ \A i \in Held : make_futures[i].addr # last.addr)
    /\ [](last.kind = "NotReady" => \A i \in Held : ~make_futures[i].canceled)
    /\ [](\A i, j \in HeldLive :
              make_futures[i].addr = make_futures[j].addr => i = j)
    /\ [][(~EnvStep /\ last'.kind \in {"Insert", "Err"} /\ last'.svc # 0) =>
            \A i \in DOMAIN make_futures' :
                (make_futures'[i].canceled /\ i \in Range(ready_q)) =>
                    /\ last'.svc \in Range(ready_q)
                    /\ Place(ready_q, last'.svc) < Place(ready_q, i)]_vars

\* C7 witness: the first build of a1 was overwritten by a second Add of a1
\* in the poll that returned the Insert of a2, whose build had completed and
\* was notified first: the canceled build of a1 is still held.
C7_Witness ==
    \E i \in Held :
        /\ builds[i].by = "add" /\ make_futures[i].canceled
        /\ last.kind = "Insert" /\ last.addr # builds[i].addr

\* C8: Inserts come in completion order: a poll that returns NotReady leaves
\* no completed build behind, a poll that returns an Insert returns a build
\* that had completed (or one the poll itself has started, whose future was
\* complete when the maker returned it), whatever older builds are still
\* pending; the Insert takes that one future and its cancellation entry out
\* of the build set (the other futures that leave are canceled ones), and
\* once every build has been Inserted both collections are empty.
C8_CompletionOrder ==
    /\ []((Ids # {} /\ \A i \in Ids : builds[i].fate = "inserted")
            => make_futures = <<>> /\ cancelations = <<>>)
    /\ [][~EnvStep =>
            /\ last'.kind = "NotReady" =>
                  \A i \in DOMAIN make_futures' :
                      make_futures'[i].inner = "pending"
            /\ last'.kind = "Insert" =>
                  /\ \/ /\ last'.svc \in Held
                        /\ make_futures[last'.svc].inner = "ok"
                        /\ make_futures[last'.svc].addr = last'.addr
                     \/ /\ last'.svc \in DOMAIN builds' \ Ids
                        /\ builds'[last'.svc].addr = last'.addr
                  /\ builds'[last'.svc].fate = "inserted"
                  /\ last'.svc \notin DOMAIN make_futures'
                  /\ last'.addr \notin DOMAIN cancelations'
                  /\ \A a \in DOMAIN cancelations \ {last'.addr} :
                        a \in DOMAIN cancelations'
                  /\ \A i \in Held \ DOMAIN make_futures' :
                        i = last'.svc \/ builds'[i].sends = 1]_vars

\* C8 witness: the second build, of another address, has been Inserted
\* while the first is still pending.
C8_Witness ==
    /\ Len(builds) >= 2
    /\ builds[1].addr # builds[2].addr
    /\ 1 \in HeldLive /\ make_futures[1].inner = "pending"
    /\ builds[2].fate = "inserted"
    /\ last = Result("Insert", builds[2].addr, 2)

\* Build i is surfaced in this step, as an Insert or as an error.
NewlySurfaced(i) ==
    /\ builds'[i].fate \in Surfaced
    /\ i \in Ids => builds[i].fate \notin Surfaced

\* C9: a build whose cancellation signal has been sent is never surfaced,
\* as an Insert or as an error of the driver, whether its underlying future
\* is pending, has completed or has failed when it is next polled: a build
\* is surfaced only with no signal sent for it, before the poll or in it.
\* (A signal can follow: the entry of a build whose error was returned
\* stays, and a later Remove or Add of the address sends on it; no signal
\* is ever sent for a build that was Inserted.)
C9_CanceledNeverSurfaced ==
    /\ [][\A i \in DOMAIN builds' :
              NewlySurfaced(i) => builds'[i].sends = 0]_vars
    /\ [][\A i \in Ids :
              (builds[i].sends >= 1 /\ builds[i].fate \notin Surfaced)
                  => builds'[i].fate \notin Surfaced]_vars
    /\ [](\A i \in Ids : builds[i].fate = "inserted" => builds[i].sends = 0)

\* C9 witness: canceled builds whose futures had completed and had failed
\* have been dropped, and the driver is running.
C9_Witness ==
    /\ Running
    /\ \E i, j \in Ids :
          /\ builds[i].fate = "absorbed_ok" /\ builds[i].sends = 1
          /\ builds[j].fate = "absorbed_err" /\ builds[j].sends = 1

\* C10 (as claimed): when the first update of the resolution after a
\* reconnect is Add(list), the addresses known before the reconnect that are
\* not in list get their Remove before the Add is yielded, none of list is
\* Removed, and active_endpoints is empty afterwards.
C10_ReconcileFreshAdd ==
    (/\ counts.resolves >= 2 /\ fresh.n = 1 /\ fresh.first.kind = "Add"
     /\ fresh.held = fresh.stale /\ fresh.stale # {}
     /\ state = "Resolving")
    => /\ (fresh.stale \ Range(fresh.first.list))
             \subseteq (fresh.removed \cup Range(pending_removals))
       /\ fresh.removed \cap Range(fresh.first.list) = {}
       /\ active_endpoints = <<>>

\* C11 (as claimed): when the first update of the resolution after a
\* reconnect is Remove(addrs), every address known before the reconnect and
\* every address of addrs is returned as a Remove, and active_endpoints is
\* empty afterwards.
C11_ReconcileFreshRemove ==
    (/\ counts.resolves >= 2 /\ fresh.n = 1 /\ fresh.first.kind = "Remove"
     /\ fresh.held = fresh.stale /\ fresh.stale # {}
     /\ state = "Resolving" /\ stream = <<>> /\ pending_removals = <<>>)
    => /\ (fresh.stale \cup Range(fresh.first.list)) \subseteq fresh.removed
       /\ active_endpoints = <<>>

\* C12: the backoff is reset on every successful reconnect and only then:
\* whenever the driver is in Resolving no delay is outstanding (reset_delay
\* ran on the way out of Connected, before any update is pulled), a driver
\* in Backoff has taken a delay, and the delays outstanding are always
\* exactly those taken since the driver last left Connected (or Reconcile)
\* for Resolving: every failure of the resolve future or of the resolution
\* takes one more delay without resetting, and nothing else resets them.
C12_BackoffReset ==
    /\ [](state = "Resolving" => backoff = 0)
    /\ [](state = "Backoff" => backoff >= 1)
    /\ [](Running => backoff = counts.delays - counts.reconnected)
    /\ [][(last'.kind \notin Ended /\ counts'.reconnected = counts.reconnected)
            => backoff' = backoff + (counts'.delays - counts.delays)]_vars

\* C12 witness: the resolver has failed twice in a row, the second failure
\* on the way out of Connecting; the driver took two delays, then
\* reconnected, and is in Resolving with the backoff reset.
C12_Witness ==
    /\ state = "Resolving" /\ backoff = 0
    /\ counts.delays = 2 /\ counts.reconnected = 2 /\ counts.resolves = 3

\* C13: a failure of the resolve future or of the resolution never makes
\* Discover::poll return an error: an error it returns is the maker's
\* (poll_ready) or that of a build that was not canceled (one that had
\* failed, or one the poll itself has started and whose future had failed
\* when the maker returned it), and a poll in which the maker gives no error
\* and no live build has failed returns no error, whatever the resolver
\* does, also when it handles a failure of the resolver.
C13_ResolverErrorsNotSurfaced ==
    /\ [](last.kind = "Err" =>
            \/ last = ResErr
            \/ /\ last.svc \in Ids
               /\ builds[last.svc] = [addr |-> last.addr, sends |-> 0,
                                      by |-> "-", fate |-> "failed"])
    /\ [][(last'.kind = "Err" /\ ~EnvStep) =>
            \/ last' = ResErr /\ "err" \in Range(asked')
            \/ last'.svc \in HeldLive /\ make_futures[last'.svc].inner = "err"
            \/ last'.svc \in DOMAIN builds' \ Ids]_vars
    /\ [][(FailureHandled /\ "err" \notin Range(asked')
              /\ DOMAIN builds' = Ids
              /\ \A id \in HeldLive : make_futures[id].inner # "err")
            => last'.kind # "Err"]_vars

\* C13 witness: the resolution failed, the poll that met the failure
\* returned NotReady and the driver is backing off.
C13_Witness ==
    /\ state = "Backoff" /\ timer = "pending" /\ backoff = 1
    /\ counts.failures = 1 /\ last = ResNotReady

\* C14: the maker's errors are the driver's: a poll in which
\* poll_ready answers with an error (before or after the maker was called
\* for an Add) returns an error (no poll with such an answer returns
\* anything else); a poll that comes to poll the build set (the resolution
\* has nothing to yield, no removal is pending and no backoff timer fails)
\* while a build that was not canceled has failed, and none has completed,
\* returns that build's error; and a failed build that was not canceled is
\* only ever released by the poll that returns its error.
C14_MakerErrorsFatal ==
    /\ [][\A i \in DOMAIN builds' :
              (builds'[i].fate = "failed"
                  /\ (i \in Ids => builds[i].fate # "failed")) =>
                  /\ last' = Result("Err", builds'[i].addr, i)
                  /\ builds'[i].sends = 0]_vars
    /\ [][(~EnvStep /\ last' # ResErr) =>
            /\ "err" \notin Range(asked')
            /\ (/\ stream = <<>> /\ pending_removals = <<>>
                /\ last'.kind # "TimerPanic"
                /\ \E i \in HeldLive : make_futures[i].inner = "err"
                /\ \A i \in HeldLive : make_futures[i].inner # "ok")
               => /\ last'.kind = "Err" /\ last'.svc \in HeldLive
                  /\ make_futures[last'.svc].inner = "err"
                  /\ make_futures[last'.svc].addr = last'.addr
            /\ last'.kind = "NotReady" =>
                  \A i \in DOMAIN make_futures' :
                      make_futures'[i].inner # "err"]_vars

\* C14 witness: a build that was not canceled failed and the poll returned
\* its error.
C14_Witness ==
    \E i \in Ids :
        /\ builds[i].fate = "failed" /\ builds[i].sends = 0
        /\ last = Result("Err", builds[i].addr, i)

\* C15 (as claimed): an Update::Empty or Update::DoesNotExist the resolution
\* yields is surfaced to the consumer: the poll that pulls it does not abort.
C15_EmptySurfaced == last.kind # "Panic"

\* C16: the maker's readiness gates the resolution: a poll in which
\* poll_ready answers NotReady leaves the resolution state machine where it
\* was (no resolve is started, no update pulled, no delay taken) and starts
\* no build; and once the maker, called for an Add, is no longer ready, no
\* further update is pulled in that poll: what the poll has pulled are the
\* Adds it asked the maker for (and the failures of resolutions it went
\* past), the last of them an Add.
C16_MakerGatesResolution ==
    [][(~EnvStep /\ last'.kind \notin Ended) =>
         /\ \/ /\ state' = state /\ stream' = stream
               /\ resolve_fut' = resolve_fut /\ timer' = timer
               /\ backoff' = backoff /\ fresh' = fresh /\ counts' = counts
               /\ Len(builds') = Len(builds)
            \/ asked' = <<>>
            \/ asked'[1] # "notready"
         /\ (Len(asked') >= 2 /\ asked'[Len(asked')] = "notready") =>
              \E n \in 1..Len(stream) :
                 /\ stream' = SubSeq(stream, n + 1, Len(stream))
                 /\ \A i \in 1..n : stream[i].kind \in {"Add", "Err"}
                 /\ Cardinality({i \in 1..n : stream[i].kind = "Add"})
                        = Len(asked') - 1
                 /\ stream[n].kind = "Add"]_vars

\* C16 witness: the resolution has an Add to yield, the maker was not ready
\* in the last poll, and the Add is still there, no build started.
C16_Witness ==
    /\ gated /\ last = ResNotReady
    /\ state = "Resolving" /\ stream # <<>> /\ Head(stream).kind = "Add"
    /\ builds = <<>>

\* C17: removals drain first: a poll that starts with pending removals
\* returns Change::Remove of the last of them, leaves the resolution alone
\* and takes no build's result; an Insert is returned only by a poll that
\* found no removal pending, and that pulled none.
C17_RemovalsDrainFirst ==
    /\ [][(pending_removals # <<>> /\ ~EnvStep) =>
            /\ last' = Result("Remove",
                              pending_removals[Len(pending_removals)], 0)
            /\ pending_removals'
                 = SubSeq(pending_removals, 1, Len(pending_removals) - 1)
            /\ state' = state /\ stream' = stream
            /\ resolve_fut' = resolve_fut /\ timer' = timer
            /\ backoff' = backoff /\ counts' = counts
            /\ Len(builds') = Len(builds)
            /\ \A i \in DOMAIN builds : builds'[i].fate = builds[i].fate]_vars
    /\ [][(last'.kind = "Insert" /\ ~EnvStep) =>
            pending_removals = <<>> /\ pending_removals' = <<>>]_vars

\* C17 witness: two removals of a1 were returned by two polls, the second
\* one found the first's leftover pending, while the build of a2 was
\* complete all along; it is still held, not returned.
C17_Witness ==
    /\ last = Result("Remove", "a1", 0) /\ net["a1"] = -2
    /\ pending_removals = <<>> /\ stream = <<>>
    /\ Len(builds) = 1 /\ builds[1].addr = "a2" /\ builds[1].sends = 0
    /\ 1 \in HeldLive /\ make_futures[1].inner = "ok"
    /\ ~make_futures[1].canceled

\* C18: cross-task backpressure: the Daemon polls the driver only with the
\* slot that poll_ready reserved in this turn of the loop; while the channel
\* holds Capacity undelivered changes the driver is not polled; and every
\* change the driver returned is in the channel or on its way into it.
C18_Backpressure ==
    /\ daemon \in {"discover", "try_send"} => permit /\ Len(chan) < Capacity
    /\ returned = received \o chan
                    \o (IF daemon = "try_send" THEN <<up>> ELSE <<>>)

\* C18 witness: the channel is full of changes nobody took, and the Daemon,
\* polled, returned NotReady from poll_ready without asking the driver.
C18_Witness ==
    /\ handle = "held" /\ Len(chan) = Capacity
    /\ daemon = "parked" /\ waits = "tx" /\ ~permit
    /\ Len(returned) = Capacity

\* C19: once the consumer's handle is dropped the Daemon terminates; it
\* returns Ok exactly when it finds the disconnect, in the turn of the loop
\* that finds it, without polling the driver or sending; and a Daemon that
\* has returned does nothing more.
C19_ConsumerDropShutsDown ==
    /\ (handle = "dropped") ~> (daemon \in Terminated)
    /\ [][(daemon = "disconnect_rx" /\ handle = "dropped" /\ daemon' # daemon)
             => (daemon' = "Ok" /\ returned' = returned /\ chan' = chan)]_vars
    /\ [][(daemon' = "Ok" /\ daemon # "Ok")
             => (daemon = "disconnect_rx" /\ handle = "dropped")]_vars
    /\ [][(daemon \in Terminated)
             => (daemon' = daemon /\ returned' = returned /\ chan' = chan)]_vars

\* C19 witness: the Daemon had sent a change and was waiting for the driver
\* when the handle was dropped; it woke and returned Ok.
C19_Witness ==
    /\ handle = "dropped" /\ daemon = "Ok"
    /\ waits = "discover" /\ chan # <<>> /\ returned = chan

\* C20: what the consumer has received through the handle is, in order, the
\* first of what the driver returned; behind it the channel holds the next
\* of them, in the same order, none skipped or doubled; and every change
\* the driver returns is placed in the channel: the Daemon that has been
\* given one goes on to send it and nothing else, the send succeeds, and a
\* Daemon that keeps being polled gets there.
C20_OrderNoLoss ==
    /\ [](/\ Len(received) + Len(chan) <= Len(returned)
          /\ received = SubSeq(returned, 1, Len(received))
          /\ chan = SubSeq(returned, Len(received) + 1,
                           Len(received) + Len(chan)))
    /\ [][returned' # returned =>
            /\ returned' = Append(returned, up')
            /\ daemon' = "try_send" /\ chan' = chan]_vars
    /\ [][(daemon = "try_send" /\ daemon' # daemon) =>
            /\ chan' = Append(chan, up)
            /\ returned' = returned]_vars
    /\ \A n \in 1..MaxChanges :
          (Len(returned) >= n) ~> (Len(received) + Len(chan) >= n)

\* C20 witness: the driver has returned two changes and the channel holds
\* them, in the order in which they were returned.
C20_Witness ==
    /\ Len(returned) = 2 /\ chan = returned /\ received = <<>>
    /\ daemon # "try_send"

\* C21 (as claimed): once the driver's poll has returned an error the Daemon
\* has ended, nothing of what the driver returned is left unsent, and a
\* consumer that polls the handle gets the changes sent before the error
\* and then the end of the stream: its poll of a channel that holds changes
\* receives one, and its poll of the closed, empty channel does not panic.
C21_ErrorClosesChannel ==
    (daemon = "Err" /\ handle = "held") =>
        /\ returned = received \o chan
        /\ hpoll = "nonempty" => received # <<>>
        /\ hpoll # "closed"

\* C22: no reconnect before the backoff timer fires: between two polls the
\* driver rests in Connecting, Resolving or Backoff (in Disconnected only
\* before it has called resolve, in Connected only with a resolution it has
\* been handed by with_resolution, which calls no resolve); a delay is
\* outstanding exactly in Backoff, where no resolve future is held; a poll
\* calls resolve once when it starts from Disconnected or from Backoff with
\* the delay fired, and besides only after a delay it has taken itself and
\* found elapsed: a poll that ends in Backoff has its last delay pending and
\* has called resolve for none but the earlier ones; a poll that meets a
\* failure (the maker being ready) takes a delay; and while the delay has
\* not fired a poll leaves the driver in Backoff.
C22_NoReconnectBeforeTimer ==
    /\ [](Running =>
            /\ state \in {"Disconnected", "Connecting", "Connected",
                          "Resolving", "Backoff"}
            /\ state = "Disconnected" => counts.resolves = 0
            /\ state = "Connected" => resolve_fut = "ok"
            /\ timer # "none" <=> state = "Backoff"
            /\ resolve_fut = "none" <=> state \in {"Disconnected", "Backoff"})
    /\ [][last'.kind \notin Ended =>
            /\ counts'.resolves - counts.resolves
                   <= (IF Resolves THEN 1 ELSE 0)
                        + (counts'.delays - counts.delays)
                        - (IF FailureHandled /\ state' = "Backoff" THEN 1 ELSE 0)
            /\ (state = "Backoff" /\ timer = "pending") =>
                 /\ state' = "Backoff" \/ Handed
                 /\ counts'.resolves = counts.resolves
                 /\ backoff' = backoff
            /\ FailureHandled =>
                 \/ state' = "Backoff" /\ timer' = "pending"
                                       /\ resolve_fut' = "none"
                 \/ state' # "Backoff" /\ counts'.resolves > counts.resolves
            /\ (~EnvStep /\ state # "Backoff" /\ pending_removals = <<>>
                /\ (resolve_fut = "err"
                    \/ (state = "Resolving" /\ stream # <<>>
                        /\ Head(stream).kind = "Err"))) =>
                 \/ FailureHandled
                 \/ asked'[1] # "ready"]_vars

\* C22 witness: the resolution failed, the driver stayed in Backoff through
\* a poll while the delay was pending, and resolve was called a second time
\* only by the poll after the timer fired.
C22_Witness ==
    /\ state = "Connecting" /\ resolve_fut = "pending"
    /\ counts.resolves = 2 /\ counts.failures = 1 /\ backoff = 1
    /\ timer = "none" /\ last = ResNotReady

\* C23 (as claimed): retries are unconditional: a failure that a poll meets
\* (of the resolve future or of the resolution) takes a delay, and the poll
\* ends in Backoff or has called resolve again; and, as long as no backoff
\* timer fails, a driver in Backoff, whatever the number of delays it has
\* taken, comes to call resolve once more.
C23_RetriesUnconditional ==
    /\ [][(~EnvStep /\ FailureWaits' < FailureWaits) =>
            /\ counts'.delays > counts.delays
            /\ state' = "Backoff" \/ counts'.resolves > counts.resolves]_vars
    /\ [](timer # "failed") =>
          \A k \in 1..RetryFailures, r \in 1..(RetryFailures + 1) :
              (state = "Backoff" /\ counts.delays = k /\ counts.resolves = r)
                  ~> (counts.resolves > r)

\* C23 (amended): the same, unless the driver is handed a resolution while
\* it backs off: with_resolution replaces the state, the pending Delay
\* with it, by Connected with the resolution it is given, and no resolve is
\* called for that failure.
C23_RetriesUnlessHanded ==
    /\ [][(~EnvStep /\ FailureWaits' < FailureWaits) =>
            /\ counts'.delays > counts.delays
            /\ state' = "Backoff" \/ counts'.resolves > counts.resolves]_vars
    /\ [](timer # "failed") =>
          \A k \in 1..RetryFailures, r \in 1..(RetryFailures + 1) :
              (state = "Backoff" /\ counts.delays = k /\ counts.resolves = r)
                  ~> (counts.resolves > r \/ state = "Connected")

\* C23 witness: every failure the run allows has happened, each one has
\* taken a delay and was followed by a call of resolve, and the last call
\* has given a resolution.
C23_Witness ==
    /\ Running /\ counts.failures = RetryFailures
    /\ counts.delays = RetryFailures
    /\ counts.resolves = RetryFailures + 1
    /\ state = "Resolving" /\ resolve_fut = "ok"

\* C24: whenever the driver is in Resolving, active_endpoints is empty and
\* no update is held back for reconciliation.
C24_ResolvingImpliesNoActive ==
    state = "Resolving" =>
        active_endpoints = <<>> /\ reconcile_update = UpdNone

\* C24 witness: the driver has reconnected and is in Resolving again, with
\* nothing in active_endpoints although an address Added before the
\* failure was Inserted and is still held by the consumer.
C24_Witness ==
    /\ state = "Resolving" /\ counts.resolves >= 2
    /\ active_endpoints = <<>> /\ view # {} /\ fresh.held # {}

\* C25 (as claimed): the removals are returned in the order in which they
\* were enqueued: a poll that pulls a Remove update returns the first address
\* of its list and leaves the rest pending, in order, and a poll that starts
\* with removals pending returns the oldest of them.
C25_RemovalsFifo ==
    [][(~EnvStep /\ last'.kind = "Remove") =>
          IF pending_removals # <<>>
          THEN /\ last'.addr = Head(pending_removals)
               /\ pending_removals' = Tail(pending_removals)
          ELSE \E i \in 1..Len(stream) :
                  /\ stream[i].kind = "Remove"
                  /\ \A j \in 1..(i - 1) : stream[j].kind = "Add"
                  /\ last'.addr = Head(stream[i].list)
                  /\ pending_removals' = Tail(stream[i].list)]_vars

\* C26 (as claimed): every call of the maker follows a poll_ready of its own
\* that answered Ready: a poll calls the maker no more often than poll_ready
\* has answered Ready in it, however many endpoints an Add carries.
C26_PollReadyPerCall ==
    [][~EnvStep => Len(builds') - Len(builds) <= Count(asked', "ready")]_vars

\* C27: the channel never holds more than Capacity changes, the slot
\* reserved for the next one included; the Daemon comes to try_send only
\* with a reserved slot, so that the send succeeds whatever the consumer has
\* done meanwhile; and the only panic of the Daemon is the driver's.
C27_SendNeverFails ==
    /\ Len(chan) + (IF permit THEN 1 ELSE 0) <= Capacity
    /\ daemon = "try_send" =>
          permit /\ up # 0 /\ Sender_try_send(chan, permit, handle) = "Ok"
    /\ daemon = "panic" => up = 0

\* C27 witness: the consumer dropped the receiver after poll_ready had
\* answered Ready, the driver has returned a change, and the Daemon is about
\* to put it in the last slot of the channel.
C27_Witness ==
    /\ daemon = "try_send" /\ handle = "rx_dropped"
    /\ permit /\ Len(chan) = Capacity - 1

\* C28 (as claimed): as long as no backoff timer fails, a build that has
\* completed with a service and is not canceled is Inserted in the end,
\* unless a Remove or an Add of its address supersedes it first.
C28_InsertLiveness ==
    [](timer # "failed") =>
        \A id \in 1..InsertBuilds :
            (id \in HeldLive /\ make_futures[id].inner = "ok")
                ~> (id \in Ids /\ (builds[id].fate = "inserted"
                                      \/ builds[id].by # "-"))

\* C29 (as claimed): a request reaches the inner service if and only if it
\* has no l5d-require-id header or the header names the endpoint's peer
\* identity; any other request gets a RequireIdentityError that carries the
\* identity required and the one found, and the inner service is not called
\* for it.
C29_RequireIdentity ==
    /\ [](requests > 0 =>
            LET pass == \/ call.header = "absent"
                        \/ call.header = peer_identity[call.svc]
            IN /\ call.result.kind = "inner" <=> pass
               /\ ~pass => call.result.kind = "RequireIdentityError")
    /\ [][requests' = requests + 1 =>
            LET pass == \/ call'.header = "absent"
                        \/ call'.header = peer_identity[call'.svc]
            IN inner_calls' = inner_calls + (IF pass THEN 1 ELSE 0)]_vars
    /\ [][requests' = requests => inner_calls' = inner_calls]_vars

====
